---------------------------- MODULE Spec2Model ----------------------------
(***************************************************************************)
(* The Ahasend e-mail adapter of src/src/index.ts: the address parser, the *)
(* request builder, the transport with its response normalisation, and the *)
(* adapter entry point that composes them.                                 *)
(*                                                                         *)
(* Representation of JavaScript values.                                    *)
(*   - A string is the sequence of its pieces.  Strings the code looks     *)
(*     into (addresses, attachment contents) are sequences of characters;  *)
(*     strings it only copies or concatenates are made of longer pieces.   *)
(*   - An object the code builds (EmailRecipient, AhasendEmail, a response *)
(*     body) is a function from the keys it has; a key whose value is      *)
(*     undefined is a key the object does not have, which is what          *)
(*     JSON.stringify makes of it.                                         *)
(*   - A value of a union type of the caller (string | object | array,     *)
(*     string | Buffer | stream) carries its type in the field "type".     *)
(***************************************************************************)
EXTENDS Integers, Sequences, FiniteSets, TLC

VARIABLES config, pc, message, email, request, response, result, netCalls, call

vars == <<config, pc, message, email, request, response, result, netCalls, call>>

(***************************************************************************)
(* Bounds of the model.                                                    *)
(***************************************************************************)
\* longest array given as "to"
MaxTo == 3
\* longest text that follows the optional "data:" prefix in the enumerated
\* attachment contents
MaxData == 3
\* longest string given to the address parser on its own
MaxAddr == 5
\* send invocations in flight on one adapter at the same time
MaxSends == 2

(***************************************************************************)
(* Strings.                                                                *)
(***************************************************************************)
\* the characters String.prototype.trim and the regex class \s remove
WhiteSpace == {" ", "\t", "\n"}

RECURSIVE TrimStart(_)
TrimStart(s) ==
  IF s # <<>> /\ Head(s) \in WhiteSpace THEN TrimStart(Tail(s)) ELSE s

RECURSIVE TrimEnd(_)
TrimEnd(s) ==
  IF s # <<>> /\ s[Len(s)] \in WhiteSpace
  THEN TrimEnd(SubSeq(s, 1, Len(s) - 1))
  ELSE s

\* String.prototype.trim
Trim(s) == TrimEnd(TrimStart(s))

\* String.prototype.startsWith
StartsWith(s, p) == Len(s) >= Len(p) /\ SubSeq(s, 1, Len(p)) = p

\* the positions of character c in s
Positions(s, c) == {i \in 1..Len(s) : s[i] = c}

Min(S) == CHOOSE x \in S : \A y \in S : x <= y

\* String.prototype.split(sep) for a one-character separator: the pieces of s
\* between the occurrences of sep
RECURSIVE Split(_, _)
Split(s, sep) ==
  IF Positions(s, sep) = {}
  THEN <<s>>
  ELSE LET i == Min(Positions(s, sep))
       IN  <<SubSeq(s, 1, i - 1)>> \o Split(SubSeq(s, i + 1, Len(s)), sep)

\* all strings over alphabet A of length at most n
StringsUpTo(A, n) == UNION {[1..k -> A] : k \in 0..n}

(***************************************************************************)
(* EmailParser.parseEmailString                                            *)
(***************************************************************************)
\* first alternative of the regex, ^([^<]+)<([^>]+)>$ : a non-empty text
\* without "<", then "<", then a non-empty text without ">", then ">" as the
\* last character
MatchesBracketed(s) ==
  /\ Positions(s, "<") # {}
  /\ LET i == Min(Positions(s, "<"))
     IN  /\ i >= 2
         /\ Len(s) >= i + 2
         /\ s[Len(s)] = ">"
         /\ \A j \in (i + 1)..(Len(s) - 1) : s[j] # ">"

\* second alternative, ^([^<\s]+)$ : a non-empty text with neither "<" nor
\* white space
MatchesBare(s) ==
  /\ s # <<>>
  /\ \A j \in 1..Len(s) : s[j] # "<" /\ s[j] \notin WhiteSpace

parseEmailString(emailStr) ==
  IF MatchesBracketed(emailStr)
  THEN LET i == Min(Positions(emailStr, "<"))
           name == SubSeq(emailStr, 1, i - 1)
           emailInBrackets == SubSeq(emailStr, i + 1, Len(emailStr) - 1)
       IN  [name |-> Trim(name), email |-> Trim(emailInBrackets)]
  ELSE IF MatchesBare(emailStr)
  THEN LET emailWithoutBrackets == emailStr
       IN  [email |-> IF Trim(emailWithoutBrackets) # <<>>
                      THEN Trim(emailWithoutBrackets)
                      ELSE Trim(emailStr)]
  ELSE [email |-> Trim(emailStr)]

(***************************************************************************)
(* Buffer: UTF-8 and base64.                                               *)
(***************************************************************************)
\* the printable ASCII characters, in code order from 32 (space) to 126 (the
\* grave accent, code 96, is spelled out)
Ascii == <<
  " ", "!", "\"", "#", "$", "%", "&", "'",
  "(", ")", "*", "+", ",", "-", ".", "/",
  "0", "1", "2", "3", "4", "5", "6", "7",
  "8", "9", ":", ";", "<", "=", ">", "?",
  "@", "A", "B", "C", "D", "E", "F", "G",
  "H", "I", "J", "K", "L", "M", "N", "O",
  "P", "Q", "R", "S", "T", "U", "V", "W",
  "X", "Y", "Z", "[", "\\", "]", "^", "_",
  "grave", "a", "b", "c", "d", "e", "f", "g",
  "h", "i", "j", "k", "l", "m", "n", "o",
  "p", "q", "r", "s", "t", "u", "v", "w",
  "x", "y", "z", "{", "|", "}", "~" >>

\* the UTF-8 code of a character (the characters used are all ASCII)
CharCode(c) == 31 + (CHOOSE i \in 1..Len(Ascii) : Ascii[i] = c)

\* Buffer.from(string): the bytes of its UTF-8 encoding
BufferFrom(s) == [i \in 1..Len(s) |-> CharCode(s[i])]

Base64Alphabet == <<
  "A", "B", "C", "D", "E", "F", "G", "H",
  "I", "J", "K", "L", "M", "N", "O", "P",
  "Q", "R", "S", "T", "U", "V", "W", "X",
  "Y", "Z", "a", "b", "c", "d", "e", "f",
  "g", "h", "i", "j", "k", "l", "m", "n",
  "o", "p", "q", "r", "s", "t", "u", "v",
  "w", "x", "y", "z", "0", "1", "2", "3",
  "4", "5", "6", "7", "8", "9", "+", "/" >>

B64(n) == Base64Alphabet[n + 1]

\* Buffer.prototype.toString('base64'): three bytes give four characters, the
\* last group is padded with "="
RECURSIVE toBase64(_)
toBase64(b) ==
  IF Len(b) = 0 THEN <<>>
  ELSE IF Len(b) = 1
  THEN <<B64(b[1] \div 4), B64((b[1] % 4) * 16), "=", "=">>
  ELSE IF Len(b) = 2
  THEN <<B64(b[1] \div 4), B64((b[1] % 4) * 16 + b[2] \div 16),
         B64((b[2] % 16) * 4), "=">>
  ELSE <<B64(b[1] \div 4), B64((b[1] % 4) * 16 + b[2] \div 16),
         B64((b[2] % 16) * 4 + b[3] \div 64), B64(b[3] % 64)>>
       \o toBase64(SubSeq(b, 4, Len(b)))

(***************************************************************************)
(* Values of the caller's union types, and APIError.                       *)
(***************************************************************************)
undefined == [type |-> "undefined"]
Str(s) == [type |-> "string", value |-> s]
Obj(o) == [type |-> "object", value |-> o]
Arr(a) == [type |-> "array", value |-> a]
Buf(b) == [type |-> "Buffer", value |-> b]
\* a readable stream, the third kind of attachment content nodemailer takes
Stream == [type |-> "stream"]

\* JavaScript truthiness: undefined and the empty string are falsy; objects,
\* arrays and buffers, empty or not, are truthy
Truthy(v) ==
  CASE v.type = "undefined" -> FALSE
    [] v.type = "string" -> v.value # <<>>
    [] OTHER -> TRUE

\* new APIError(message, status)
APIError(msg, status) == [name |-> "APIError", message |-> msg, status |-> status]

\* any other exception, with its message
OtherError(name, msg) == [name |-> name, message |-> msg]

\* error instanceof APIError
IsAPIError(error) == error.name = "APIError"

\* obj[k] = v
Put(obj, k, v) == [x \in DOMAIN obj \cup {k} |-> IF x = k THEN v ELSE obj[x]]

\* the object {name, email}: a name that is undefined is no key
Recipient(name, emailAddr) ==
  IF name.type = "undefined"
  THEN [email |-> emailAddr]
  ELSE [name |-> name.value, email |-> emailAddr]

\* the outcome of an operation that can throw
Ok(v) == [ok |-> TRUE, value |-> v]
Throw(e) == [ok |-> FALSE, error |-> e]

(***************************************************************************)
(* AhasendEmailBuilder                                                     *)
(***************************************************************************)
\* constructor: this.email
NewBuilder(cfg) ==
  [content |-> [subject |-> <<>>],
   from |-> [name |-> cfg.defaultFromName, email |-> cfg.defaultFromAddress],
   recipients |-> <<>>]

\* a || b on a string that may be missing
OrDefault(obj, k, default) ==
  IF k \in DOMAIN obj /\ obj[k] # <<>> THEN obj[k] ELSE default

\* a || b on a value of the caller
ValueOr(v, default) == IF Truthy(v) THEN v.value ELSE default

\* setFrom taking the defaults only when there is no from at all
setFromAllOrNothing(e, from, defaultFromAddress, defaultFromName) ==
  IF ~Truthy(from) THEN e
  ELSE IF from.type = "string"
  THEN LET parsed == parseEmailString(from.value)
       IN  [e EXCEPT !.from =
              [name |-> OrDefault(parsed, "name", <<>>),
               email |-> OrDefault(parsed, "email", <<>>)]]
  ELSE [e EXCEPT !.from =
          [name |-> ValueOr(from.value.name, <<>>),
           email |-> ValueOr(from.value.address, <<>>)]]

setFrom(e, from, defaultFromAddress, defaultFromName) ==
  IF ~Truthy(from) THEN e
  ELSE IF from.type = "string"
  THEN LET parsed == parseEmailString(from.value)
       IN  [e EXCEPT !.from =
              [name |-> OrDefault(parsed, "name", defaultFromName),
               email |-> OrDefault(parsed, "email", defaultFromAddress)]]
  ELSE [e EXCEPT !.from =
          [name |-> ValueOr(from.value.name, defaultFromName),
           email |-> ValueOr(from.value.address, defaultFromAddress)]]

\* address?.address is truthy
HasAddress(address) ==
  address.type = "object" /\ Truthy(address.value.address)

\* {name: address.name, email: address.address}
FromAddressObject(address) ==
  Recipient(address.value.name, address.value.address.value)

\* addresses.forEach(...): the recipients pushed for the entries of an array
RECURSIVE pushEach(_, _)
pushEach(recipients, addresses) ==
  IF Len(addresses) = 0 THEN recipients
  ELSE LET address == Head(addresses)
           pushed == IF address.type = "string"
                     THEN Append(recipients, parseEmailString(address.value))
                     ELSE IF HasAddress(address)
                     THEN Append(recipients, FromAddressObject(address))
                     ELSE recipients
       IN  pushEach(pushed, Tail(addresses))

\* setRecipients appending to the list instead of replacing it
setRecipientsAppending(e, addresses) ==
  IF ~Truthy(addresses) THEN e
  ELSE LET recipients ==
             IF addresses.type = "string"
             THEN <<parseEmailString(addresses.value)>>
             ELSE IF addresses.type = "array"
             THEN pushEach(<<>>, addresses.value)
             ELSE IF HasAddress(addresses)
             THEN <<FromAddressObject(addresses)>>
             ELSE <<>>
       IN  [e EXCEPT !.recipients = @ \o recipients]

setRecipients(e, addresses) ==
  IF ~Truthy(addresses) THEN e
  ELSE LET recipients ==
             IF addresses.type = "string"
             THEN <<parseEmailString(addresses.value)>>
             ELSE IF addresses.type = "array"
             THEN pushEach(<<>>, addresses.value)
             ELSE IF HasAddress(addresses)
             THEN <<FromAddressObject(addresses)>>
             ELSE <<>>
       IN  [e EXCEPT !.recipients = recipients]

setReplyTo(e, replyTo) ==
  IF ~Truthy(replyTo) THEN e
  ELSE IF replyTo.type = "string"
  THEN [e EXCEPT !.content = Put(@, "reply_to", parseEmailString(replyTo.value))]
  ELSE IF replyTo.type = "array" /\ Len(replyTo.value) > 0
  THEN LET first == replyTo.value[1]
       IN  IF first.type = "string"
           THEN [e EXCEPT !.content =
                   Put(@, "reply_to", parseEmailString(first.value))]
           ELSE IF HasAddress(first)
           THEN [e EXCEPT !.content = Put(@, "reply_to", FromAddressObject(first))]
           ELSE e
  ELSE IF replyTo.type # "array" /\ HasAddress(replyTo)
  THEN [e EXCEPT !.content = Put(@, "reply_to", FromAddressObject(replyTo))]
  ELSE e

setContent(e, m) ==
  LET c1 == Put(e.content, "subject", ValueOr(m.subject, <<>>))
      c2 == IF Truthy(m.html) THEN Put(c1, "html_body", m.html.value) ELSE c1
      c3 == IF Truthy(m.text) THEN Put(c2, "text_body", m.text.value) ELSE c2
  IN  [e EXCEPT !.content = c3]

DataUriPrefix == <<"d", "a", "t", "a", ":">>

\* data, for a content that is a string
stringData(content) ==
  IF StartsWith(content, DataUriPrefix)
  THEN LET parts == Split(content, ",")
       IN  IF Len(parts) >= 2 /\ parts[2] # <<>> THEN parts[2] ELSE <<>>
  ELSE toBase64(BufferFrom(content))

\* the callback of attachments.map
mapAttachment(attachment) ==
  IF ~Truthy(attachment.filename) \/ ~Truthy(attachment.content)
  THEN Throw(APIError(<<"Attachment is missing filename or content">>, 400))
  ELSE IF attachment.content.type \notin {"Buffer", "string"}
  THEN Throw(APIError(<<"Attachment content must be a string or Buffer">>, 400))
  ELSE Ok([base64 |-> TRUE,
           content_type |-> ValueOr(attachment.contentType,
                                    <<"application/octet-stream">>),
           data |-> IF attachment.content.type = "Buffer"
                    THEN toBase64(attachment.content.value)
                    ELSE stringData(attachment.content.value),
           file_name |-> attachment.filename.value])

\* setAttachments leaving out the entries it should reject
setAttachmentsSkipping(e, attachments) ==
  IF ~Truthy(attachments) \/ Len(attachments.value) = 0
  THEN Ok(e)
  ELSE LET IsFine(t) == mapAttachment(t).ok
           kept == SelectSeq(attachments.value, IsFine)
       IN  Ok([e EXCEPT !.content =
                 Put(@, "attachments",
                     [i \in 1..Len(kept) |-> mapAttachment(kept[i]).value])])

\* map calls the callback entry by entry: the first entry that throws ends it
setAttachments(e, attachments) ==
  IF ~Truthy(attachments) \/ Len(attachments.value) = 0
  THEN Ok(e)
  ELSE LET mapped == [i \in 1..Len(attachments.value) |->
                        mapAttachment(attachments.value[i])]
           thrown == {i \in 1..Len(mapped) : ~mapped[i].ok}
       IN  IF thrown # {}
           THEN Throw(mapped[Min(thrown)].error)
           ELSE Ok([e EXCEPT !.content =
                      Put(@, "attachments",
                          [i \in 1..Len(mapped) |-> mapped[i].value])])

\* build() without its check
buildUnchecked(e) == Ok(e)

build(e) ==
  IF Len(e.recipients) = 0
  THEN Throw(APIError(<<"Email must have at least one recipient">>, 400))
  ELSE Ok(e)

(***************************************************************************)
(* AhasendEmailService.sendEmail and the adapter's sendEmail               *)
(***************************************************************************)
\* the arguments of the call to fetch; the body is the JSON text of the message
fetchCall(apiKey, emailOptions) ==
  [url |-> <<"https://api.ahasend.com/v1/email/send">>,
   method |-> "POST",
   headers |-> ("Accept" :> <<"application/json">>)
               @@ ("Content-Type" :> <<"application/json">>)
               @@ ("X-Api-Key" :> apiKey),
   body |-> emailOptions]

\* response.ok
IsOk(status) == status >= 200 /\ status <= 299

\* a catch block that wraps whatever it catches
serviceCatchWrapping(error) ==
  APIError(<<"Failed to send email: ">> \o error.message, 500)

\* the catch block of AhasendEmailService.sendEmail
serviceCatch(error) ==
  IF IsAPIError(error) THEN error
  ELSE APIError(<<"Failed to send email: ">> \o error.message, 500)

\* the catch block of the adapter's sendEmail
adapterCatch(error) ==
  IF IsAPIError(error) THEN error
  ELSE APIError(<<"Failed to send email: ">> \o error.message, 500)

\* the builder chain of the adapter's sendEmail up to setContent, which cannot
\* throw
chain(cfg, m) ==
  setContent(
    setReplyTo(
      setRecipients(
        setFrom(NewBuilder(cfg), m.from, cfg.defaultFromAddress, cfg.defaultFromName),
        m.to),
      m.replyTo),
    m)

\* a normalisation that takes every JSON object for a success
normaliseLenient(status, body) ==
  IF ~body.parseable
  THEN Throw(OtherError("SyntaxError", <<"Unexpected token in JSON">>))
  ELSE IF body.json.type # "object"
  THEN Throw(OtherError("TypeError",
         <<"Cannot use 'in' operator to search for 'success_count'">>))
  ELSE Ok(body.json.value)

\* the statements after "if (!response.ok)" once the body has arrived
normalise(status, body) ==
  IF ~body.parseable
  THEN Throw(OtherError("SyntaxError", <<"Unexpected token in JSON">>))
  ELSE IF body.json.type # "object"
  THEN Throw(OtherError("TypeError",
         <<"Cannot use 'in' operator to search for 'success_count'">>))
  ELSE LET data == body.json.value
       IN  IF "success_count" \in DOMAIN data
           THEN Ok(data)
           ELSE Throw(APIError(OrDefault(data, "status", <<"Unknown error">>), status))

(***************************************************************************)
(* The inputs: adapter configurations, send requests, provider responses.  *)
(***************************************************************************)
\* the configuration of the README, and the one dev/helpers/testEmailAdapter
\* builds when the environment sets no variable
Configs ==
  { [apiKey |-> <<"key">>, defaultFromAddress |-> <<"a@x.com">>,
     defaultFromName |-> <<"A">>],
    [apiKey |-> <<>>, defaultFromAddress |-> <<>>, defaultFromName |-> <<>>] }

\* address strings, character by character
aBare == <<"b", "@", "y">>
aNamed == <<"N", " ", "<", "c", "@", "z", ">">>
aNoName == <<" ", "<", "c", "@", "z", ">">>
aNoEmail == <<"N", "<", " ", ">">>
aBroken == <<"b", "<", "n">>
aSpaces == <<" ", " ">>

\* address objects {name, address}
Address(name, address) == Obj([name |-> name, address |-> address])
oFull == Address(Str(<<"M">>), Str(<<"d@w.com">>))
oNoName == Address(undefined, Str(<<"e@v.com">>))
oNoAddress == Address(Str(<<"M">>), undefined)
oEmpty == Address(Str(<<>>), Str(<<>>))

FromInputs ==
  { undefined, Str(<<>>), Str(aBare), Str(aNamed), Str(aNoName), Str(aNoEmail),
    Str(aBroken), Str(aSpaces), oFull, oNoName, oNoAddress, oEmpty }
FromSmall == { undefined, Str(aNoName) }

\* the entries of an array given as "to"
ToItems == { Str(aBare), Str(aNamed), oFull, oNoAddress }
ToArrays == { Arr(a) : a \in UNION {[1..k -> ToItems] : k \in 0..MaxTo} }
ToInputs ==
  { undefined, Str(<<>>), Str(aBare), Str(aNamed), Str(aBroken), oNoName,
    oNoAddress, oEmpty, Arr(<<oEmpty, oNoName>>), Arr(<<undefined, Str(aSpaces)>>) }
  \cup ToArrays
ToSmall == { undefined, Str(aBare), Arr(<<oNoAddress>>) }

ReplyToInputs == { undefined, Str(aNamed), Arr(<<oFull, Str(aBare)>>) }

SubjectInputs == { undefined, Str(<<"Hi">>) }
HtmlInputs == { undefined, Str(<<"<p>Body</p>">>) }
TextInputs == { undefined, Str(<<"Body">>) }

\* custom headers of the request (SendEmailOptions.headers)
HeadersInputs == { undefined, Obj([XTag |-> <<"welcome">>]) }

\* attachment contents that are strings: the two of the documentation, and
\* every text of commas and exclamation marks, alone or after "data:"
sHello == <<"h", "e", "l", "l", "o">>
sDataUri ==
  DataUriPrefix
  \o <<"t", "e", "x", "t", "/", "p", "l", "a", "i", "n", ";",
       "b", "a", "s", "e", "6", "4", ",">>
  \o <<"a", "G", "V", "s", "b", "G", "8", "=">>
ContentStrings ==
  { sHello, sDataUri }
  \cup { p \o t : p \in {<<>>, DataUriPrefix}, t \in StringsUpTo({",", "!"}, MaxData) }

Contents ==
  { undefined, Stream, Buf(<<>>), Buf(<<104, 105>>), Buf(<<255, 254, 0, 16>>) }
  \cup { Str(c) : c \in ContentStrings }

Attachment(filename, content, contentType) ==
  [filename |-> filename, content |-> content, contentType |-> contentType]
tGood == Attachment(Str(<<"f.txt">>), Str(sHello), undefined)
tNoFilename == Attachment(undefined, Str(sHello), undefined)
tStream == Attachment(Str(<<"f.txt">>), Stream, undefined)
AttachmentItems ==
  { Attachment(Str(<<"f.txt">>), c, undefined) : c \in Contents }
  \cup { tNoFilename,
         Attachment(Str(<<>>), Buf(<<104, 105>>), undefined),
         Attachment(Str(<<"f.txt">>), Buf(<<104, 105>>), Str(<<"text/plain">>)) }
AttachmentsInputs ==
  { undefined, Arr(<<>>) }
  \cup { Arr(<<t>>) : t \in AttachmentItems }
  \cup { Arr(<<t, u>>) : t, u \in {tGood, tNoFilename, tStream} }
AttachmentsSmall == { undefined, Arr(<<tGood>>), Arr(<<tNoFilename>>), Arr(<<tStream>>) }

\* the send requests: every sender, every recipient input and every
\* attachment list, each against the combinations of the other fields
Messages ==
  [from : FromInputs, to : ToSmall, replyTo : ReplyToInputs,
   subject : SubjectInputs, html : HtmlInputs, text : TextInputs,
   attachments : AttachmentsSmall, headers : HeadersInputs]
  \cup
  [from : FromSmall, to : ToInputs, replyTo : {undefined, Str(aNamed)},
   subject : SubjectInputs, html : {undefined}, text : TextInputs,
   attachments : AttachmentsSmall, headers : {undefined}]
  \cup
  [from : FromSmall, to : ToSmall, replyTo : {undefined},
   subject : {Str(<<"Hi">>)}, html : {undefined}, text : TextInputs,
   attachments : AttachmentsInputs, headers : {undefined}]

\* what the provider answers
Statuses == { 200, 202, 401, 422, 500 }
successBody ==
  [success_count |-> 1, fail_count |-> 0, failed_recipients |-> <<>>,
   errors |-> <<>>]
partialBody ==
  [success_count |-> 0, fail_count |-> 1,
   failed_recipients |-> << <<"b@y">> >>, errors |-> << <<"bounced">> >>]
Json(v) == [parseable |-> TRUE, json |-> v]
Bodies ==
  { [parseable |-> FALSE],
    Json([type |-> "null"]),
    Json(Obj(successBody)),
    Json(Obj(partialBody)),
    Json(Obj([status |-> <<"invalid api key">>])),
    Json(Obj([status |-> <<>>])),
    Json(Obj([message |-> <<"bad request">>])) }
Responses == [status : Statuses, body : Bodies]

(***************************************************************************)
(* The adapter: one send at a time, from the call to its outcome.          *)
(***************************************************************************)
None == [type |-> "none"]
Pending == [kind |-> "pending"]
Returned(v) == [kind |-> "returned", value |-> v]
Thrown(e) == [kind |-> "thrown", error |-> e]

\* ahasendAdapter(config)
Init ==
  /\ config \in Configs
  /\ pc = "idle"
  /\ message = None
  /\ email = None
  /\ request = None
  /\ response = None
  /\ result = Pending
  /\ netCalls = 0
  /\ call = [op |-> "none"]

\* sendEmail(message) of the adapter, up to the await of fetch: the builder
\* chain, build() and the call to fetch, or the error thrown before it
SendEmail(m) ==
  /\ pc = "idle"
  /\ message' = m
  /\ response' = None
  /\ LET e == chain(config, m)
         withAttachments == setAttachments(e, m.attachments)
         built == IF withAttachments.ok
                  THEN build(withAttachments.value)
                  ELSE withAttachments
     IN  IF built.ok
         THEN /\ email' = withAttachments.value
              /\ request' = fetchCall(config.apiKey, built.value)
              /\ netCalls' = 1
              /\ result' = Pending
              /\ pc' = "fetch"
         ELSE /\ email' = IF withAttachments.ok THEN withAttachments.value ELSE e
              /\ request' = None
              /\ netCalls' = 0
              /\ result' = Thrown(adapterCatch(built.error))
              /\ pc' = "done"
  /\ UNCHANGED <<config, call>>

\* fetch resolves with the response; the message and its builder, which no
\* statement after the call to fetch reads, are dropped here
FetchResolves(r) ==
  /\ pc = "fetch"
  /\ message' = None
  /\ email' = None
  /\ request' = None
  /\ response' = r
  /\ IF ~IsOk(r.status)
     THEN /\ result' =
               Thrown(adapterCatch(serviceCatch(
                 APIError(<<"API request failed with status ", ToString(r.status)>>,
                          r.status))))
          /\ pc' = "done"
     ELSE /\ result' = Pending
          /\ pc' = "json"
  /\ UNCHANGED <<config, netCalls, call>>

\* fetch rejects: the network call failed
FetchRejects ==
  /\ pc = "fetch"
  /\ message' = None
  /\ email' = None
  /\ request' = None
  /\ result' = Thrown(adapterCatch(serviceCatch(
                  OtherError("TypeError", <<"fetch failed">>))))
  /\ pc' = "done"
  /\ UNCHANGED <<config, response, netCalls, call>>

\* response.json() settles
JsonSettles ==
  /\ pc = "json"
  /\ LET outcome == normalise(response.status, response.body)
     IN  result' = IF outcome.ok
                   THEN Returned(outcome.value)
                   ELSE Thrown(adapterCatch(serviceCatch(outcome.error)))
  /\ pc' = "done"
  /\ UNCHANGED <<config, message, email, request, response, netCalls, call>>

\* the promise of sendEmail has settled and the caller has its outcome: the
\* builder, the message and the response of this call are gone
Settled ==
  /\ pc = "done"
  /\ pc' = "idle"
  /\ message' = None
  /\ email' = None
  /\ request' = None
  /\ response' = None
  /\ result' = Pending
  /\ netCalls' = 0
  /\ UNCHANGED <<config, call>>

Next ==
  \/ pc = "idle" /\ \E m \in Messages : SendEmail(m)
  \/ pc = "fetch" /\ \E r \in Responses : FetchResolves(r)
  \/ FetchRejects
  \/ JsonSettles
  \/ Settled

Spec == Init /\ [][Next]_vars

(***************************************************************************)
(* The builder alone: its methods called in any order on one builder.      *)
(***************************************************************************)
BuilderInit ==
  /\ config \in Configs
  /\ pc = "builder"
  /\ message = None
  /\ email = NewBuilder(config)
  /\ request = None
  /\ response = None
  /\ result = Pending
  /\ netCalls = 0
  /\ call = [op |-> "constructor"]

BuilderRest == <<config, pc, message, request, response, result, netCalls>>

CallSetFrom(from) ==
  /\ email' = setFrom(email, from, config.defaultFromAddress, config.defaultFromName)
  /\ call' = [op |-> "setFrom", arg |-> from]
  /\ UNCHANGED BuilderRest

CallSetRecipients(addresses) ==
  /\ email' = setRecipients(email, addresses)
  /\ call' = [op |-> "setRecipients", arg |-> addresses,
               before |-> Len(email.recipients)]
  /\ UNCHANGED BuilderRest

CallBuild ==
  /\ email' = email
  /\ call' = [op |-> "build", outcome |-> build(email)]
  /\ UNCHANGED BuilderRest

BuilderNext ==
  \/ \E from \in FromSmall : CallSetFrom(from)
  \/ \E addresses \in ToInputs : CallSetRecipients(addresses)
  \/ CallBuild

BuilderSpec == BuilderInit /\ [][BuilderNext]_vars

(***************************************************************************)
(* The address parser alone: one string in, one recipient out.             *)
(***************************************************************************)
\* a name character, white space and the two brackets
AddressAlphabet == {"n", " ", "<", ">"}
AddressStrings == StringsUpTo(AddressAlphabet, MaxAddr)

ParserInit ==
  /\ config \in Configs
  /\ pc = "parser"
  /\ message = None
  /\ email = None
  /\ request = None
  /\ response = None
  /\ result = Pending
  /\ netCalls = 0
  /\ call \in {[op |-> "input", arg |-> a] : a \in AddressStrings}

CallParseEmailString ==
  /\ call.op = "input"
  /\ call' = [op |-> "parseEmailString", arg |-> call.arg,
               value |-> parseEmailString(call.arg)]
  /\ UNCHANGED <<config, pc, message, email, request, response, result, netCalls>>

ParserNext == CallParseEmailString

ParserSpec == ParserInit /\ [][ParserNext]_vars

(***************************************************************************)
(* Several sends on one adapter.  Each variable but config holds one slot  *)
(* per invocation; an invocation runs without interruption from its call   *)
(* to the await of fetch, and from one await to the next.                  *)
(***************************************************************************)
Sends == 1..MaxSends

\* a builder kept by the adapter and handed to every invocation
builderShared(builders, i, cfg) ==
  IF \E j \in DOMAIN builders : j # i /\ builders[j].type # "none"
  THEN builders[CHOOSE j \in DOMAIN builders : j # i /\ builders[j].type # "none"].value
  ELSE NewBuilder(cfg)

\* "new AhasendEmailBuilder(config)" in invocation i: a builder of its own,
\* whatever builders the other invocations hold
builderFor(builders, i, cfg) == NewBuilder(cfg)

\* the builder chain of the adapter's sendEmail up to setContent, on builder b
chainFrom(b, cfg, m) ==
  setContent(
    setReplyTo(
      setRecipients(
        setFrom(b, m.from, cfg.defaultFromAddress, cfg.defaultFromName),
        m.to),
      m.replyTo),
    m)

\* the builder of an invocation, once it has one
Builder(e) == [type |-> "builder", value |-> e]

\* send requests: two that build a message, one without recipient, one with
\* an attachment the builder refuses
ConcMessages ==
  { [from |-> undefined, to |-> Str(aBare), replyTo |-> undefined,
     subject |-> Str(<<"Hi">>), html |-> undefined, text |-> Str(<<"Body">>),
     attachments |-> undefined, headers |-> undefined],
    [from |-> Str(aNamed), to |-> Arr(<<oFull, Str(aNamed)>>), replyTo |-> Str(aNamed),
     subject |-> Str(<<"Hi">>), html |-> Str(<<"<p>Body</p>">>), text |-> undefined,
     attachments |-> Arr(<<tGood>>), headers |-> undefined],
    [from |-> undefined, to |-> undefined, replyTo |-> undefined,
     subject |-> Str(<<"Hi">>), html |-> undefined, text |-> Str(<<"Body">>),
     attachments |-> undefined, headers |-> undefined],
    [from |-> undefined, to |-> Str(aBare), replyTo |-> undefined,
     subject |-> Str(<<"Hi">>), html |-> undefined, text |-> Str(<<"Body">>),
     attachments |-> Arr(<<tStream>>), headers |-> undefined] }

\* answers of the provider: accepted, refused, and an unreadable body
ConcResponses ==
  { [status |-> 200, body |-> Json(Obj(successBody))],
    [status |-> 401, body |-> Json(Obj([status |-> <<"invalid api key">>]))],
    [status |-> 200, body |-> [parseable |-> FALSE]] }

\* ahasendAdapter(config), no invocation yet
ConcInit ==
  /\ config \in Configs
  /\ pc = [i \in Sends |-> "idle"]
  /\ message = [i \in Sends |-> None]
  /\ email = [i \in Sends |-> None]
  /\ request = [i \in Sends |-> None]
  /\ response = [i \in Sends |-> None]
  /\ result = [i \in Sends |-> Pending]
  /\ netCalls = [i \in Sends |-> 0]
  /\ call = [op |-> "none"]

\* invocation i of sendEmail(m), up to the await of fetch
ConcSendEmail(i, m) ==
  /\ pc[i] = "idle"
  /\ message' = [message EXCEPT ![i] = m]
  /\ LET e == chainFrom(builderFor(email, i, config), config, m)
         withAttachments == setAttachments(e, m.attachments)
         built == IF withAttachments.ok
                  THEN build(withAttachments.value)
                  ELSE withAttachments
     IN  /\ email' = [email EXCEPT ![i] =
                         Builder(IF withAttachments.ok THEN withAttachments.value ELSE e)]
         /\ IF built.ok
            THEN /\ request' = [request EXCEPT ![i] = fetchCall(config.apiKey, built.value)]
                 /\ netCalls' = [netCalls EXCEPT ![i] = 1]
                 /\ result' = result
                 /\ pc' = [pc EXCEPT ![i] = "fetch"]
            ELSE /\ request' = request
                 /\ netCalls' = netCalls
                 /\ result' = [result EXCEPT ![i] = Thrown(adapterCatch(built.error))]
                 /\ pc' = [pc EXCEPT ![i] = "done"]
  /\ call' = [op |-> "sendEmail", send |-> i]
  /\ UNCHANGED <<config, response>>

\* the fetch of invocation i resolves with response r
ConcFetchResolves(i, r) ==
  /\ pc[i] = "fetch"
  /\ response' = [response EXCEPT ![i] = r]
  /\ IF ~IsOk(r.status)
     THEN /\ result' = [result EXCEPT ![i] =
               Thrown(adapterCatch(serviceCatch(
                 APIError(<<"API request failed with status ", ToString(r.status)>>,
                          r.status))))]
          /\ pc' = [pc EXCEPT ![i] = "done"]
     ELSE /\ result' = result
          /\ pc' = [pc EXCEPT ![i] = "json"]
  /\ UNCHANGED <<config, message, email, request, netCalls, call>>

\* the fetch of invocation i rejects
ConcFetchRejects(i) ==
  /\ pc[i] = "fetch"
  /\ result' = [result EXCEPT ![i] =
                  Thrown(adapterCatch(serviceCatch(
                    OtherError("TypeError", <<"fetch failed">>))))]
  /\ pc' = [pc EXCEPT ![i] = "done"]
  /\ UNCHANGED <<config, message, email, request, response, netCalls, call>>

\* response.json() of invocation i settles
ConcJsonSettles(i) ==
  /\ pc[i] = "json"
  /\ LET outcome == normalise(response[i].status, response[i].body)
     IN  result' = [result EXCEPT ![i] =
                      IF outcome.ok
                      THEN Returned(outcome.value)
                      ELSE Thrown(adapterCatch(serviceCatch(outcome.error)))]
  /\ pc' = [pc EXCEPT ![i] = "done"]
  /\ UNCHANGED <<config, message, email, request, response, netCalls, call>>

\* the promise of invocation i has settled and its caller has the outcome
ConcSettled(i) ==
  /\ pc[i] = "done"
  /\ pc' = [pc EXCEPT ![i] = "idle"]
  /\ message' = [message EXCEPT ![i] = None]
  /\ email' = [email EXCEPT ![i] = None]
  /\ request' = [request EXCEPT ![i] = None]
  /\ response' = [response EXCEPT ![i] = None]
  /\ result' = [result EXCEPT ![i] = Pending]
  /\ netCalls' = [netCalls EXCEPT ![i] = 0]
  /\ UNCHANGED <<config, call>>

ConcNext ==
  \E i \in Sends :
    \/ pc[i] = "idle" /\ \E m \in ConcMessages : ConcSendEmail(i, m)
    \/ pc[i] = "fetch" /\ \E r \in ConcResponses : ConcFetchResolves(i, r)
    \/ ConcFetchRejects(i)
    \/ ConcJsonSettles(i)
    \/ ConcSettled(i)

ConcSpec == ConcInit /\ [][ConcNext]_vars

(***************************************************************************)
(* Properties.                                                             *)
(***************************************************************************)
\* a send is past the builder and its message and builder are still live
Built == pc = "fetch" \/ (pc = "done" /\ response = None /\ netCalls = 0)

\* the parsed body is a JSON object
IsObjectBody(body) == body.parseable /\ body.json.type = "object"

\* the message "API request failed with status N"
GenericMessage(status) == <<"API request failed with status ", ToString(status)>>

\* the status field of a response body, which holds the provider's message,
\* when the body has one
HasMessageField(body) ==
  /\ IsObjectBody(body)
  /\ "status" \in DOMAIN body.json.value
  /\ body.json.value.status # <<>>
MessageField(body) == body.json.value.status

\* C1: a non-2xx answer with status N makes the send fail with code N and
\* with the status/message field of the body as the message, the generic
\* message being used only when the body has no such field.
C1_ErrorMessageFromBody ==
  (pc = "done" /\ response # None /\ ~IsOk(response.status)) =>
    result = Thrown(APIError(IF HasMessageField(response.body)
                             THEN MessageField(response.body)
                             ELSE GenericMessage(response.status),
                             response.status))

\* C2 as stated: on a 2xx answer the body with a success count is returned
\* unchanged, a body without one fails the send with a provider error whose
\* message is the body's status field; a non-2xx answer never succeeds.
C2_Original ==
  (pc = "done" /\ response # None /\ IsObjectBody(response.body)) =>
    LET data == response.body.json.value
        hasCount == "success_count" \in DOMAIN data
    IN  /\ (IsOk(response.status) /\ hasCount) => result = Returned(data)
        /\ (IsOk(response.status) /\ ~hasCount) =>
              /\ result.kind = "thrown"
              /\ IsAPIError(result.error)
              /\ result.error.status = response.status
              /\ "status" \in DOMAIN data => result.error.message = data.status
        /\ ~IsOk(response.status) => result.kind = "thrown"

\* C2 (amended): on a 2xx answer whose parsed body is a JSON object, the body
\* with a success count is returned unchanged; a body without one fails the
\* send with the response's status as code and, as message, the body's status
\* field when it is present and not empty, "Unknown error" otherwise.  A
\* non-2xx answer never succeeds, whatever its body.
C2_SuccessCountDecides ==
  (pc = "done" /\ response # None) =>
    /\ (IsOk(response.status) /\ IsObjectBody(response.body)) =>
          LET data == response.body.json.value
          IN  IF "success_count" \in DOMAIN data
              THEN result = Returned(data)
              ELSE result =
                     Thrown(APIError(
                       IF "status" \in DOMAIN data /\ data.status # <<>>
                       THEN data.status
                       ELSE <<"Unknown error">>,
                       response.status))
    /\ ~IsOk(response.status) => result.kind = "thrown"

C2_Witness ==
  /\ pc = "done"
  /\ response # None
  /\ response.status = 200
  /\ result = Returned(successBody)

\* every entry of an attachment list passes the checks of setAttachments
Accepted(attachments) ==
  attachments.type = "undefined"
  \/ \A i \in 1..Len(attachments.value) :
       LET t == attachments.value[i]
       IN  /\ t.filename.type = "string" /\ t.filename.value # <<>>
           /\ \/ t.content.type = "Buffer"
              \/ t.content.type = "string" /\ t.content.value # <<>>

RecipientError == APIError(<<"Email must have at least one recipient">>, 400)

\* C3: the message handed to the transport has at least one recipient and is
\* the accumulated message unchanged; with no recipient accumulated, build()
\* fails with code 400, whatever the other fields of the request.
C3_RecipientsNeverEmpty ==
  /\ pc = "fetch" =>
        /\ Len(request.body.recipients) > 0
        /\ request.body = email
  /\ (Built /\ Accepted(message.attachments)) =>
        (Len(email.recipients) = 0 <=> result = Thrown(RecipientError))
  /\ (Built /\ Len(email.recipients) = 0) => pc = "done"

C3_Witness ==
  /\ pc = "done"
  /\ Built
  /\ message.from = oFull
  /\ message.replyTo = Str(aNamed)
  /\ message.attachments = Arr(<<tGood>>)
  /\ message.to = Arr(<<oNoAddress>>)
  /\ result = Thrown(RecipientError)

\* an attachment without a file name or without a content
LacksField(t) == ~Truthy(t.filename) \/ ~Truthy(t.content)
AnyAttachment(attachments, P(_)) ==
  /\ attachments.type = "array"
  /\ \E i \in 1..Len(attachments.value) : P(attachments.value[i])

\* C4 as stated: no network call when the recipients are empty or an
\* attachment lacks its file name or content, the send then failing with code
\* 400; exactly one call in every other case, and never a second one.
C4_Original ==
  /\ Built =>
        IF Len(email.recipients) = 0 \/ AnyAttachment(message.attachments, LacksField)
        THEN netCalls = 0 /\ pc = "done" /\ result.kind = "thrown"
             /\ result.error.status = 400
        ELSE netCalls = 1
  /\ (pc # "idle" /\ ~Built) => netCalls = 1

\* an attachment whose content is neither a string nor a Buffer
NotStringOrBuffer(t) == t.content.type \notin {"undefined", "string", "Buffer"}

\* C4 (amended): no network call when the recipients are empty, or an
\* attachment lacks its file name or content, or an attachment's content is
\* neither a string nor binary, the send then failing with code 400; exactly
\* one call in every other case, the failure of the call included.
C4_NetworkCalls ==
  /\ Built =>
        IF \/ Len(email.recipients) = 0
           \/ AnyAttachment(message.attachments, LacksField)
           \/ AnyAttachment(message.attachments, NotStringOrBuffer)
        THEN netCalls = 0 /\ pc = "done" /\ result.kind = "thrown"
             /\ result.error.status = 400
        ELSE netCalls = 1
  /\ (pc # "idle" /\ ~Built) => netCalls = 1

C4_Witness ==
  /\ pc = "done"
  /\ Built
  /\ message.to = Str(aBare)
  /\ message.attachments = Arr(<<tGood, tStream>>)
  /\ netCalls = 0
  /\ result.error.status = 400

\* the wrapping of an exception that is no APIError
Wrapped(msg) == APIError(<<"Failed to send email: ">> \o msg, 500)

\* C5: an APIError reaches the caller with its code and message unchanged;
\* any other exception reaches it once wrapped, with code 500 and the
\* original message embedded.
C5_ErrorPropagation ==
  /\ result.kind = "thrown" => IsAPIError(result.error)
  /\ (Built /\ pc = "done") =>
        result.error \in
          { RecipientError,
            APIError(<<"Attachment is missing filename or content">>, 400),
            APIError(<<"Attachment content must be a string or Buffer">>, 400) }
  /\ (pc = "done" /\ ~Built /\ response = None) =>
        result = Thrown(Wrapped(<<"fetch failed">>))
  /\ (pc = "done" /\ response # None) =>
        /\ ~IsOk(response.status) =>
              result = Thrown(APIError(GenericMessage(response.status),
                                       response.status))
        /\ (IsOk(response.status) /\ ~response.body.parseable) =>
              result = Thrown(Wrapped(<<"Unexpected token in JSON">>))
        /\ (IsOk(response.status) /\ response.body.parseable
              /\ response.body.json.type # "object") =>
              result =
                Thrown(Wrapped(<<"Cannot use 'in' operator to search for 'success_count'">>))
        /\ (IsOk(response.status) /\ IsObjectBody(response.body)
              /\ result.kind = "thrown") =>
              result.error.status = response.status

C5_Witness ==
  /\ pc = "done"
  /\ response # None
  /\ response.status = 200
  /\ ~response.body.parseable
  /\ result = Thrown(APIError(<<"Failed to send email: ", "Unexpected token in JSON">>, 500))

\* C6: the headers of the send request are the headers of the message posted
\* to the provider.
C6_CustomHeaders ==
  (pc = "fetch" /\ message.headers.type = "object") =>
    /\ "headers" \in DOMAIN request.body.content
    /\ request.body.content.headers = message.headers.value

\* an entry of a recipient array that has an address
IsValidEntry(a) ==
  \/ a.type = "string"
  \/ a.type = "object" /\ a.value.address.type = "string"
       /\ a.value.address.value # <<>>

\* what a valid entry contributes
Contribution(a) ==
  IF a.type = "string" THEN parseEmailString(a.value)
  ELSE IF a.value.name.type = "string"
  THEN [name |-> a.value.name.value, email |-> a.value.address.value]
  ELSE [email |-> a.value.address.value]

\* C7: setRecipients called with an array yields the contributions of its
\* valid entries in their order, entries without an address being dropped,
\* and this list replaces the list set before.
C7_RecipientsFiltered ==
  (call.op = "setRecipients" /\ call.arg.type = "array") =>
    LET valid == SelectSeq(call.arg.value, IsValidEntry)
    IN  /\ Len(email.recipients) = Len(valid)
        /\ \A i \in 1..Len(valid) : email.recipients[i] = Contribution(valid[i])

C7_Witness ==
  /\ call.op = "setRecipients"
  /\ call.before > 0
  /\ call.arg = Arr(<<Str(aNamed), oNoAddress, oFull>>)
  /\ email.recipients =
       << [name |-> <<"N">>, email |-> <<"c", "@", "z">>],
          [name |-> <<"M">>, email |-> <<"d@w.com">>] >>

\* the name and the address a from gives, as far as it gives them
Given(from) ==
  IF from.type = "string" THEN parseEmailString(from.value)
  ELSE IF from.type = "object"
  THEN [k \in {x \in {"name", "email"} :
                 (IF x = "name" THEN from.value.name ELSE from.value.address).type
                   = "string"} |->
          IF k = "name" THEN from.value.name.value ELSE from.value.address.value]
  ELSE [k \in {} |-> <<>>]

\* C8: each field of the sender is the one the request gives when it is not
\* empty and the configured default otherwise, independently of the other.
C8_FromDefaults ==
  Built =>
    LET given == Given(message.from)
    IN  /\ email.from.name =
             IF "name" \in DOMAIN given /\ given.name # <<>>
             THEN given.name ELSE config.defaultFromName
        /\ email.from.email =
             IF "email" \in DOMAIN given /\ given.email # <<>>
             THEN given.email ELSE config.defaultFromAddress
        /\ pc = "fetch" => request.body.from = email.from

C8_Witness ==
  /\ pc = "fetch"
  /\ message.from = Str(aNoName)
  /\ request.body.from = [name |-> <<"A">>, email |-> <<"c", "@", "z">>]

\* base64 text: groups of four characters of the base64 alphabet, the last
\* group ending in at most two "="
IsBase64(s) ==
  LET Alphabet == {Base64Alphabet[i] : i \in 1..Len(Base64Alphabet)}
      n == Len(s)
  IN  /\ n % 4 = 0
      /\ \A i \in 1..n :
           \/ s[i] \in Alphabet
           \/ s[i] = "=" /\ i >= n - 1 /\ s[n] = "="

\* C9: every attachment of a message that reaches the transport has base64
\* text as data and is flagged base64.
C9_AttachmentsAreBase64 ==
  (pc = "fetch" /\ "attachments" \in DOMAIN request.body.content) =>
    \A i \in 1..Len(request.body.content.attachments) :
      LET t == request.body.content.attachments[i]
      IN  t.base64 = TRUE /\ IsBase64(t.data)

\* the data the policy gives for a string content
PolicyData(content) ==
  IF StartsWith(content, DataUriPrefix)
  THEN IF Positions(content, ",") = {}
       THEN <<>>
       ELSE SubSeq(content, Min(Positions(content, ",")) + 1, Len(content))
  ELSE toBase64(BufferFrom(content))

\* C10: for a string content, data is what follows the first comma when the
\* string begins with "data:" (nothing when it has no comma), and the base64
\* encoding of the string otherwise.
C10_StringContentPolicy ==
  (pc = "fetch" /\ "attachments" \in DOMAIN request.body.content) =>
    \A i \in 1..Len(request.body.content.attachments) :
      message.attachments.value[i].content.type = "string" =>
        request.body.content.attachments[i].data =
          PolicyData(message.attachments.value[i].content.value)

\* s has the bracketed form with its opening bracket at i: a text without
\* "<" before it, and after it a text without ">" closed by the last character
BracketAt(s, i) ==
  /\ i >= 2 /\ i <= Len(s) - 2
  /\ s[i] = "<" /\ s[Len(s)] = ">"
  /\ \A j \in 1..(i - 1) : s[j] # "<"
  /\ \A j \in (i + 1)..(Len(s) - 1) : s[j] # ">"

\* C11: the parser returns a recipient for every string: for the bracketed
\* form, the trimmed bracket contents as email and the trimmed text before
\* the bracket as name, no name when that text is empty; for any other
\* string, bare token or not, the whole trimmed string as email and no name.
C11_ParserTotal ==
  call.op = "parseEmailString" =>
    LET s == call.arg
        r == call.value
        at == {i \in 1..Len(s) : BracketAt(s, i)}
    IN  /\ "email" \in DOMAIN r /\ DOMAIN r \subseteq {"email", "name"}
        /\ IF at # {}
           THEN LET i == CHOOSE i \in at : TRUE
                    before == Trim(SubSeq(s, 1, i - 1))
                IN  /\ r.email = Trim(SubSeq(s, i + 1, Len(s) - 1))
                    /\ IF before = <<>>
                       THEN "name" \notin DOMAIN r
                       ELSE "name" \in DOMAIN r /\ r.name = before
           ELSE r = [email |-> Trim(s)]

\* what one send of m alone hands to build(), as the adapter of Spec computes it
soloBuilt(m) ==
  LET withAttachments == setAttachments(chain(config, m), m.attachments)
  IN  IF withAttachments.ok THEN build(withAttachments.value) ELSE withAttachments

\* the outcome of one send of m alone whose fetch resolved with r, or
\* rejected when r is None
soloResult(m, r) ==
  IF ~soloBuilt(m).ok THEN Thrown(adapterCatch(soloBuilt(m).error))
  ELSE IF r = None
  THEN Thrown(adapterCatch(serviceCatch(OtherError("TypeError", <<"fetch failed">>))))
  ELSE IF ~IsOk(r.status)
  THEN Thrown(adapterCatch(serviceCatch(
         APIError(<<"API request failed with status ", ToString(r.status)>>, r.status))))
  ELSE LET outcome == normalise(r.status, r.body)
       IN  IF outcome.ok THEN Returned(outcome.value)
           ELSE Thrown(adapterCatch(serviceCatch(outcome.error)))

\* invocation i has sent, and has as outcome, what a send of its message alone
\* would
AsAlone(i) ==
  /\ pc[i] \in {"fetch", "json", "done"} =>
        IF soloBuilt(message[i]).ok
        THEN /\ request[i] = fetchCall(config.apiKey, soloBuilt(message[i]).value)
             /\ netCalls[i] = 1
        ELSE /\ request[i] = None
             /\ netCalls[i] = 0
  /\ pc[i] \in {"fetch", "json"} => result[i] = Pending
  /\ pc[i] = "done" => result[i] = soloResult(message[i], response[i])

\* C12: concurrent sends on one adapter are independent: in every
\* interleaving of the sends around their awaits, each invocation posts the
\* message and has the outcome that a send of its message alone has, and no
\* step of any send changes the adapter configuration.
C12_IndependentSends ==
  /\ [](\A i \in Sends : AsAlone(i))
  /\ [][config' = config]_vars

\* invocation 2 was called while invocation 1 awaited its fetch, with another
\* message, and has settled with a response while invocation 1 still waits
C12_Witness ==
  /\ call = [op |-> "sendEmail", send |-> 2]
  /\ pc[1] = "fetch" /\ pc[2] = "done"
  /\ message[1] # message[2]
  /\ response[2] # None
  /\ result[2].kind = "returned"
  /\ request[1] # request[2]

=============================================================================
